---- MODULE Spec2Model ----
(***************************************************************************)
(* A model of the dynamic hedging simulation engine of                     *)
(* simulator/simulation.py (class PositionSimulator).                      *)
(*                                                                         *)
(* Numbers.  The program computes with Python floats.  The model computes  *)
(* with integers read as fixed-point values: prices, profits and costs in  *)
(* whole currency units, travel in whole percent, the hedging cost rate in *)
(* thousandths, leverage in whole units.  A division rounds toward zero    *)
(* (FDiv), as a float division rounds to the nearest representable value.  *)
(*                                                                         *)
(* Geometric Brownian motion.  With drift D, volatility V and a step of m  *)
(* minutes the exponent is (D - V^2/2) m/Y + V sqrt(m/Y) Z, Y the minutes  *)
(* in a year.  The model takes drift in units of Y and volatility in units *)
(* of sqrt(Y), so that the exponent is (d - v^2/2) m + v sqrt(m) Z, and    *)
(* keeps it in halves (Factor2 = twice the exponent).  math.exp is a table *)
(* of exp(k/2) in hundredths; as math.exp does at the ends of the float    *)
(* range, it gives 0.0 below the table and raises OverflowError above it.  *)
(*                                                                         *)
(* The global random source np.random is a small linear congruential       *)
(* generator; datetime.now() is a wall clock that never runs backwards.    *)
(***************************************************************************)
EXTENDS Integers, Sequences, FiniteSets, TLC

VARIABLES sims, rng, clock, csvfile, web, conf

vars == <<sims, rng, clock, csvfile, web, conf>>

\* ------------------------------------------------------------------ bounds

MaxDuration == 5
MaxClock == 1
MaxPosted == 2
MaxRuns == 2

\* ------------------------------------------------------------- input sets

EntryPrices == {1000}
LiquidationPrices == {0, 610, 1000}
PositionSizes == {1, 2}
Collaterals == {0, 10}
RebalanceThresholds == {-50, 0}
HedgingCostPcts == {0, 10}
Durations == -1 .. MaxDuration
DtMinutes == {1, 4}
Drifts == {0, 1}
Volatilities == {0, 1, 2}

\* -------------------------------------------------------------- arithmetic

Abs(x) == IF x < 0 THEN -x ELSE x

\* a / b for b # 0, rounded toward zero
FDiv(a, b) ==
    LET q == Abs(a) \div Abs(b)
    IN  IF (a < 0) # (b < 0) THEN -q ELSE q

\* np.sqrt on the step lengths the model uses
Sqrt(m) == CHOOSE r \in 0 .. m : r * r = m

\* Python's None and a present value
None == <<>>
Some(v) == <<v>>

\* ------------------------------------------------------- the random source

RngSeeds == 0 .. 7

RngAdvance(x) == (5 * x + 3) % 8

\* the standard normal draw the generator gives in state x
NormalDraw(x) == (x % 3) - 1

\* ------------------------------------------------------------- constructor

PositionSimulator(entry_price, liquidation_price, position_size, collateral, rebalance_threshold, hedging_cost_pct) ==
    [ entry_price           |-> entry_price,
      liquidation_price     |-> liquidation_price,
      position_size         |-> position_size,
      collateral            |-> collateral,
      rebalance_threshold   |-> rebalance_threshold,
      hedging_cost_pct      |-> hedging_cost_pct,
      effective_entry_price |-> entry_price,
      cumulative_profit     |-> 0,
      total_hedging_cost    |-> 0,
      rebalance_count       |-> 0,
      simulation_log        |-> << >>,
      \* the frame of run_simulation, and the calls made so far
      pc                    |-> "idle",
      runs                  |-> 0,
      step_counts           |-> << >>,
      seed                  |-> 0,
      simulation_duration   |-> 0,
      dt_minutes            |-> 1,
      drift                 |-> 0,
      volatility            |-> 0,
      num_steps             |-> 0,
      step                  |-> 0,
      current_price         |-> entry_price,
      result                |-> None ]

FreshSimulators ==
    { PositionSimulator(e, l, s, c, t, h) :
        e \in EntryPrices, l \in LiquidationPrices, s \in PositionSizes,
        c \in Collaterals, t \in RebalanceThresholds, h \in HedgingCostPcts }

\* ------------------------------------------------- _simulate_price_path

\* mutant: the random term is not scaled by the volatility
Factor2Unscaled(drift, volatility, dt_minutes, epsilon) ==
    (2 * drift - volatility * volatility) * dt_minutes
        + 2 * Sqrt(dt_minutes) * epsilon

\* twice the exponent (drift - 0.5 volatility^2) dt + volatility sqrt(dt) epsilon
Factor2(drift, volatility, dt_minutes, epsilon) ==
    (2 * drift - volatility * volatility) * dt_minutes
        + 2 * volatility * Sqrt(dt_minutes) * epsilon

\* exp(k/2) in hundredths, k = -8 .. 7
ExpTable ==
    << 2, 3, 5, 8, 14, 22, 37, 61, 100, 165, 272, 448, 739, 1218, 2009, 3312 >>

\* math.exp: 0.0 on underflow, OverflowError on overflow
MathExp(factor2) ==
    IF factor2 < -8 THEN [raised |-> FALSE, value |-> 0]
    ELSE IF factor2 > 7 THEN [raised |-> TRUE, value |-> 0]
    ELSE [raised |-> FALSE, value |-> ExpTable[factor2 + 9]]

SimulatePricePath(current_price, drift, volatility, dt_minutes, epsilon) ==
    LET e == MathExp(Factor2(drift, volatility, dt_minutes, epsilon))
    IN  [raised |-> e.raised, price |-> FDiv(current_price * e.value, 100)]

\* --------------------------------------------- _calculate_travel_percent

\* mutant: a zero denominator counts as fully travelled
CalculateTravelPercentFull(s, current_price) ==
    LET denominator == s.effective_entry_price - s.liquidation_price
    IN  IF denominator = 0
        THEN -100
        ELSE FDiv((current_price - s.effective_entry_price) * 100, denominator)

\* mutant: the distance to liquidation taken as a magnitude
CalculateTravelPercentMagnitude(s, current_price) ==
    LET denominator == Abs(s.effective_entry_price - s.liquidation_price)
    IN  IF denominator = 0
        THEN 0
        ELSE FDiv((current_price - s.effective_entry_price) * 100, denominator)

CalculateTravelPercent(s, current_price) ==
    LET denominator == s.effective_entry_price - s.liquidation_price
    IN  IF denominator = 0
        THEN 0
        ELSE FDiv((current_price - s.effective_entry_price) * 100, denominator)

\* ---------------------------------------------------- _execute_rebalance

HedgeDetails(s, current_price) ==
    LET trade_profit == (current_price - s.effective_entry_price) * s.position_size
        hedging_cost ==
            FDiv(Abs(current_price * s.position_size) * s.hedging_cost_pct, 1000)
    IN  [ trade_profit |-> trade_profit,
          hedging_cost |-> hedging_cost,
          net_profit   |-> trade_profit - hedging_cost ]

\* mutant: the hedge is not counted
ExecuteRebalanceUncounted(s, current_price) ==
    LET d == HedgeDetails(s, current_price)
    IN  [ s EXCEPT
            !.cumulative_profit     = @ + d.net_profit,
            !.total_hedging_cost    = @ + d.hedging_cost,
            !.effective_entry_price = current_price ]

\* mutant: the trade profit is accumulated without the hedging cost
ExecuteRebalanceGross(s, current_price) ==
    LET d == HedgeDetails(s, current_price)
    IN  [ s EXCEPT
            !.cumulative_profit     = @ + d.trade_profit,
            !.total_hedging_cost    = @ + d.hedging_cost,
            !.rebalance_count       = @ + 1,
            !.effective_entry_price = current_price ]

\* mutant: the reference price is reset to the entry price
ExecuteRebalanceToEntry(s, current_price) ==
    LET d == HedgeDetails(s, current_price)
    IN  [ s EXCEPT
            !.cumulative_profit     = @ + d.net_profit,
            !.total_hedging_cost    = @ + d.hedging_cost,
            !.rebalance_count       = @ + 1,
            !.effective_entry_price = s.entry_price ]

\* the simulator after _execute_rebalance(current_price)
ExecuteRebalance(s, current_price) ==
    LET d == HedgeDetails(s, current_price)
    IN  [ s EXCEPT
            !.cumulative_profit     = @ + d.net_profit,
            !.total_hedging_cost    = @ + d.hedging_cost,
            !.rebalance_count       = @ + 1,
            !.effective_entry_price = current_price ]

\* ------------------------------------------------------- run_simulation

\* mutant: the step count is rounded up
NumStepsRoundedUp(simulation_duration, dt_minutes) ==
    FDiv(simulation_duration + dt_minutes - 1, dt_minutes)

\* int(simulation_duration / dt_minutes): int() truncates toward zero
NumSteps(simulation_duration, dt_minutes) ==
    FDiv(simulation_duration, dt_minutes)

\* mutant: the trigger is strict
TriggersStrictly(travel_pct, rebalance_threshold) ==
    travel_pct < rebalance_threshold

\* the trigger: travel_pct <= self.rebalance_threshold
Triggers(travel_pct, rebalance_threshold) == travel_pct <= rebalance_threshold

\* datetime.isoformat of a time given in minutes
IsoFormat(t) == [hour |-> t \div 60, minute |-> t % 60]

CommonKeys ==
    << "step", "timestamp", "price", "travel_percent", "action",
       "unrealized_pnl", "cumulative_profit" >>

HedgeKeys == << "trade_profit", "hedging_cost", "net_profit" >>

\* mutant: on a hedge the record is the hedge details alone
StepLogDetailsOnly(s, step, sim_time, next_price, travel_pct, action, hedge_details) ==
    IF hedge_details = None
    THEN [ step              |-> step + 1,
           timestamp         |-> IsoFormat(sim_time),
           price             |-> next_price,
           travel_percent    |-> travel_pct,
           action            |-> action,
           unrealized_pnl    |->
               (next_price - s.effective_entry_price) * s.position_size,
           cumulative_profit |-> s.cumulative_profit ]
    ELSE hedge_details[1] @@ [ action |-> action ]

\* mutant: unrealized_pnl measured against the original entry price
StepLogUnrealizedFromEntry(s, step, sim_time, next_price, travel_pct, action, hedge_details) ==
    LET common ==
            [ step              |-> step + 1,
              timestamp         |-> IsoFormat(sim_time),
              price             |-> next_price,
              travel_percent    |-> travel_pct,
              action            |-> action,
              unrealized_pnl    |->
                  (next_price - s.entry_price) * s.position_size,
              cumulative_profit |-> s.cumulative_profit ]
    IN  IF hedge_details = None THEN common ELSE hedge_details[1] @@ common

\* mutant: the record carries the zero-based loop index
StepLogZeroBased(s, step, sim_time, next_price, travel_pct, action, hedge_details) ==
    LET common ==
            [ step              |-> step,
              timestamp         |-> IsoFormat(sim_time),
              price             |-> next_price,
              travel_percent    |-> travel_pct,
              action            |-> action,
              unrealized_pnl    |->
                  (next_price - s.effective_entry_price) * s.position_size,
              cumulative_profit |-> s.cumulative_profit ]
    IN  IF hedge_details = None THEN common ELSE hedge_details[1] @@ common

\* mutant: the record carries the realized profit as it was before the hedge
StepLogProfitBeforeHedge(s, step, sim_time, next_price, travel_pct, action, hedge_details) ==
    LET common ==
            [ step              |-> step + 1,
              timestamp         |-> IsoFormat(sim_time),
              price             |-> next_price,
              travel_percent    |-> travel_pct,
              action            |-> action,
              unrealized_pnl    |->
                  (next_price - s.effective_entry_price) * s.position_size,
              cumulative_profit |->
                  IF hedge_details = None THEN s.cumulative_profit
                  ELSE s.cumulative_profit - hedge_details[1].net_profit ]
    IN  IF hedge_details = None THEN common ELSE hedge_details[1] @@ common

\* the record of one step: the common fields, updated with the hedge details
StepLog(s, step, sim_time, next_price, travel_pct, action, hedge_details) ==
    LET common ==
            [ step              |-> step + 1,
              timestamp         |-> IsoFormat(sim_time),
              price             |-> next_price,
              travel_percent    |-> travel_pct,
              action            |-> action,
              unrealized_pnl    |->
                  (next_price - s.effective_entry_price) * s.position_size,
              cumulative_profit |-> s.cumulative_profit ]
    IN  IF hedge_details = None THEN common ELSE hedge_details[1] @@ common

\* mutant: the logged travel is measured after the hedge has reset the reference
LoopBodyTravelAfterHedge(s, now, epsilon) ==
    LET sim_time   == now + s.step * s.dt_minutes
        next       == SimulatePricePath(s.current_price, s.drift, s.volatility,
                                        s.dt_minutes, epsilon)
        next_price == next.price
        travel_pct == CalculateTravelPercent(s, next_price)
        hedge      == Triggers(travel_pct, s.rebalance_threshold)
        action     == IF hedge THEN "REBALANCE" ELSE "NONE"
        details    == IF hedge THEN Some(HedgeDetails(s, next_price)) ELSE None
        s1         == IF hedge THEN ExecuteRebalance(s, next_price) ELSE s
        step_log   == StepLog(s1, s.step, sim_time, next_price,
                              CalculateTravelPercent(s1, next_price),
                              action, details)
    IN  IF next.raised
        THEN [ s EXCEPT !.pc = "raised" ]
        ELSE [ s1 EXCEPT
                 !.simulation_log = Append(@, step_log),
                 !.current_price  = next_price,
                 !.step           = @ + 1 ]

\* one pass of the loop body, lines 123-146; s is the simulator before it
LoopBody(s, now, epsilon) ==
    LET sim_time   == now + s.step * s.dt_minutes
        next       == SimulatePricePath(s.current_price, s.drift, s.volatility,
                                        s.dt_minutes, epsilon)
        next_price == next.price
        travel_pct == CalculateTravelPercent(s, next_price)
        hedge      == Triggers(travel_pct, s.rebalance_threshold)
        action     == IF hedge THEN "REBALANCE" ELSE "NONE"
        details    == IF hedge THEN Some(HedgeDetails(s, next_price)) ELSE None
        s1         == IF hedge THEN ExecuteRebalance(s, next_price) ELSE s
        step_log   == StepLog(s1, s.step, sim_time, next_price, travel_pct,
                              action, details)
    IN  IF next.raised
        THEN [ s EXCEPT !.pc = "raised" ]
        ELSE [ s1 EXCEPT
                 !.simulation_log = Append(@, step_log),
                 !.current_price  = next_price,
                 !.step           = @ + 1 ]

\* mutant: leverage from the effective entry price, not the final price
ComputedLeverageFromReference(s, current_price) ==
    IF s.collateral # 0
    THEN Some(FDiv(s.position_size * s.effective_entry_price, s.collateral))
    ELSE None

\* mutant: leverage from the entry price
ComputedLeverageFromEntry(s, current_price) ==
    IF s.collateral # 0
    THEN Some(FDiv(s.position_size * s.entry_price, s.collateral))
    ELSE None

\* self.collateral != 0 guards the division
ComputedLeverage(s, current_price) ==
    IF s.collateral # 0
    THEN Some(FDiv(s.position_size * current_price, s.collateral))
    ELSE None

\* the returned dictionary; its "simulation_log" is self.simulation_log itself
ResultBundle(s) ==
    LET final_unrealized ==
            (s.current_price - s.effective_entry_price) * s.position_size
    IN  [ final_price          |-> s.current_price,
          final_unrealized_pnl |-> final_unrealized,
          cumulative_profit    |-> s.cumulative_profit,
          total_profit         |-> s.cumulative_profit + final_unrealized,
          rebalance_count      |-> s.rebalance_count,
          total_hedging_cost   |-> s.total_hedging_cost,
          leverage             |-> ComputedLeverage(s, s.current_price),
          collateral           |-> s.collateral,
          position_size        |-> s.position_size ]

\* the simulator once run_simulation has returned its result bundle
ReturnRun(s) == [ s EXCEPT !.pc = "done", !.result = Some(ResultBundle(s)) ]

\* ---------------------------------------------------- export_log_to_csv

\* the keys of a log record in insertion order
DictKeys(row) ==
    IF "net_profit" \in DOMAIN row THEN CommonKeys \o HedgeKeys ELSE CommonKeys

Range(seq) == { seq[k] : k \in DOMAIN seq }

\* DictWriter._dict_to_list: a missing key is written as the empty cell
DictToList(fieldnames, row) ==
    [ k \in DOMAIN fieldnames |->
        IF fieldnames[k] \in DOMAIN row THEN Some(row[fieldnames[k]]) ELSE None ]

\* the rows before the first one holding a key that is no field name
RECURSIVE RowsWritten(_, _)
RowsWritten(fieldnames, rows) ==
    IF rows = << >> \/ ~(DOMAIN Head(rows) \subseteq Range(fieldnames))
    THEN << >>
    ELSE << DictToList(fieldnames, Head(rows)) >>
             \o RowsWritten(fieldnames, Tail(rows))

NoFile == [ header |-> << >>, rows |-> << >>, error |-> "absent" ]

\* the file export_log_to_csv leaves; DictWriter raises ValueError on a row
\* with a key outside fieldnames, after the rows before it were written
ExportLogToCsv(s, file) ==
    IF s.simulation_log = << >>
    THEN file
    ELSE LET keys    == DictKeys(s.simulation_log[1])
             written == RowsWritten(keys, s.simulation_log)
         IN  [ header |-> keys,
               rows   |-> written,
               error  |-> IF Len(written) = Len(s.simulation_log)
                          THEN "none" ELSE "ValueError" ]

\* ------------------------------------- simulator_bp.py: the two handlers

FormFields ==
    << "entry_price", "liquidation_price", "position_size", "collateral",
       "rebalance_threshold", "hedging_cost_pct", "simulation_duration",
       "dt_minutes", "drift", "volatility", "position_side" >>

\* the defaults of both handlers; drift 0.05 and volatility 0.8 a year are 0
\* in the units of the model, the cost rate 0.001 is 1 thousandth
DefaultParams ==
    [ entry_price         |-> 10000,
      liquidation_price   |-> 8000,
      position_size       |-> 1,
      collateral          |-> 1000,
      rebalance_threshold |-> -25,
      hedging_cost_pct    |-> 1,
      simulation_duration |-> 60,
      dt_minutes          |-> 1,
      drift               |-> 0,
      volatility          |-> 0,
      position_side       |-> "long" ]

NumberTexts == {"0", "500", "abc"}
SideTexts == {"SHORT", "long"}

\* the posted forms: at most MaxPosted fields, each with a text
Forms ==
    UNION { { f \in [ D -> NumberTexts \cup SideTexts ] :
                \A k \in D : f[k] \in (IF k = "position_side"
                                       THEN SideTexts ELSE NumberTexts) } :
            D \in { D \in SUBSET Range(FormFields) : Cardinality(D) <= MaxPosted } }

\* float(text): ValueError on a text that is no number
ParseFloat(text) ==
    IF text = "0" THEN [raised |-> FALSE, value |-> 0]
    ELSE IF text = "500" THEN [raised |-> FALSE, value |-> 500]
    ELSE [raised |-> TRUE, value |-> 0]

\* str.lower
Lower(text) == IF text = "SHORT" THEN "short" ELSE text

\* float(request.form.get(key, default)): the default is a number already
ParseField(form, key, default) ==
    IF key \in DOMAIN form
    THEN ParseFloat(form[key])
    ELSE [raised |-> FALSE, value |-> default]

\* the assignments of the try block from field k on, in order; the first
\* float() that raises ends the block, the except clause only logs
RECURSIVE ParseFrom(_, _, _)
ParseFrom(params, form, k) ==
    IF k > Len(FormFields) THEN [params |-> params, error |-> FALSE]
    ELSE LET key == FormFields[k]
         IN  IF key = "position_side"
             THEN ParseFrom(
                      [params EXCEPT
                         ![key] = IF key \in DOMAIN form
                                  THEN Lower(form[key]) ELSE Lower(@)],
                      form, k + 1)
             ELSE LET v == ParseField(form, key, params[key])
                  IN  IF v.raised
                      THEN [params |-> params, error |-> TRUE]
                      ELSE ParseFrom([params EXCEPT ![key] = v.value], form, k + 1)

\* the parameters PositionSimulator.__init__ declares
InitParameters ==
    { "entry_price", "liquidation_price", "position_size", "collateral",
      "rebalance_threshold", "hedging_cost_pct" }

\* the keyword arguments both handlers construct the simulator with
ConstructorKwargs(params) ==
    [ entry_price         |-> params.entry_price,
      liquidation_price   |-> params.liquidation_price,
      position_size       |-> params.position_size,
      collateral          |-> params.collateral,
      rebalance_threshold |-> params.rebalance_threshold,
      hedging_cost_pct    |-> params.hedging_cost_pct,
      position_side       |-> params.position_side ]

\* a call binds its keywords to declared parameters, or raises TypeError
CallRaisesTypeError(kwargs) == ~(DOMAIN kwargs \subseteq InitParameters)

\* compare_simulation: the collateral raised by a tenth
TweakedParams(params) ==
    [ params EXCEPT !.collateral = FDiv(@ * 110, 100) ]

\* simulator_dashboard line 72: the leverage of the page, with no test of the
\* collateral; ZeroDivisionError when it is 0
DashboardLeverage(s, params) ==
    IF params.collateral = 0
    THEN [raised |-> TRUE, value |-> 0]
    ELSE [raised |-> FALSE,
          value  |-> FDiv(s.effective_entry_price * params.position_size,
                          params.collateral)]

NoRequest ==
    [ handler |-> "none", method |-> "GET", form |-> << >>, pc |-> "done",
      params |-> DefaultParams, parse_error |-> FALSE, tweaked |-> None,
      ctor_calls |-> << >>, outcome |-> "none", leverage |-> None ]

Requests ==
    { [ NoRequest EXCEPT !.handler = h, !.method = m, !.form = f, !.pc = "start" ] :
        h \in {"dashboard", "compare"}, m \in {"GET", "POST"}, f \in Forms }

\* ----------------------------------------------------------------- actions

\* ------------------------------------------- config/config_manager.py

\* Values.  A Python value is an int, a tuple, a list or a dict; a JSON value
\* is an int, an array or an object, written here as int, list and dict.  A
\* dict is a function from the keys it has to the values under them.
IntValue(n) == [ kind |-> "int", n |-> n ]
TupleValue(items) == [ kind |-> "tuple", items |-> items ]
ListValue(items) == [ kind |-> "list", items |-> items ]
DictValue(d) == [ kind |-> "dict", d |-> d ]

IsDict(val) == val.kind = "dict"

TopKeys == {"a", "b"}
InnerKeys == {"x"}

\* the dicts with keys among the given ones and values among the given ones
DictsOver(keys, values) == UNION { [ ks -> values ] : ks \in SUBSET keys }

EmptyDict == [ key \in {} |-> key ]

JsonScalars == { IntValue(1), IntValue(2) }
JsonValues == JsonScalars \cup { DictValue(d) : d \in DictsOver(InnerKeys, JsonScalars) \ {EmptyDict} }
JsonDicts == DictsOver(TopKeys, JsonValues)

PythonScalars == JsonScalars \cup { TupleValue(<< 1 >>) }
PythonValues == PythonScalars \cup { DictValue(d) : d \in DictsOver(InnerKeys, JsonScalars) \ {EmptyDict} }
PythonDicts == DictsOver(TopKeys, PythonValues)

\* deep_merge_dicts(base, overrides), lines 8-20
RECURSIVE deep_merge_dicts(_, _)
deep_merge_dicts(base, overrides) ==
    [ key \in DOMAIN base \cup DOMAIN overrides |->
        IF key \notin DOMAIN overrides THEN base[key]
        ELSE IF key \in DOMAIN base /\ IsDict(base[key]) /\ IsDict(overrides[key])
             THEN DictValue(deep_merge_dicts(base[key].d, overrides[key].d))
             ELSE overrides[key] ]

\* json.dump: the JSON document of a Python dict; a tuple is written as an array
RECURSIVE JsonDump(_)
JsonDump(d) ==
    [ key \in DOMAIN d |->
        IF d[key].kind = "tuple" THEN ListValue(d[key].items)
        ELSE IF IsDict(d[key]) THEN DictValue(JsonDump(d[key].d))
        ELSE d[key] ]

\* json.load / json.loads: the Python dict of a JSON document; an array is
\* read as a list
RECURSIVE JsonLoad(_)
JsonLoad(doc) ==
    [ key \in DOMAIN doc |->
        IF IsDict(doc[key]) THEN DictValue(JsonLoad(doc[key].d)) ELSE doc[key] ]

\* load_json_config, lines 58-70: a missing file reads as the empty dict
load_json_config(file) == IF file = None THEN EmptyDict ELSE JsonLoad(file[1])

\* load_overrides_from_db, lines 43-54: the row with id 1 of config_overrides
load_overrides_from_db(db) == JsonLoad(db)

\* load_config, lines 73-91
load_config(file, db, has_conn) ==
    LET base_data    == load_json_config(file)
        db_overrides == IF has_conn THEN load_overrides_from_db(db) ELSE EmptyDict
    IN  deep_merge_dicts(base_data, db_overrides)

\* save_config, lines 94-103: the file after the dump
save_config(config) == Some(JsonDump(config))

\* no configuration call is in progress
NoConfig ==
    [ file |-> None, db |-> EmptyDict, has_conn |-> FALSE, new_config |-> EmptyDict,
      pc |-> "none", updated |-> None, loaded |-> None ]

\* a call update_config(new_config, json_path, db_conn) about to be made: the
\* file at json_path, the overrides row of the database, whether db_conn is
\* given, and the updates
ConfigCalls ==
    [ file : {None} \cup { Some(d) : d \in JsonDicts }, db : JsonDicts,
      has_conn : BOOLEAN, new_config : PythonDicts,
      pc : {"start"}, updated : {None}, loaded : {None} ]

Running == { i \in DOMAIN sims : sims[i].pc = "loop" }

\* mutant: a call starts from the state the constructor left
EnterRunReset(s, seed, duration, dtm, drift, volatility) ==
    [ s EXCEPT
        !.pc                    = "loop",
        !.runs                  = @ + 1,
        !.step_counts           = Append(@, NumSteps(duration, dtm)),
        !.seed                  = seed,
        !.simulation_duration   = duration,
        !.dt_minutes            = dtm,
        !.drift                 = drift,
        !.volatility            = volatility,
        !.num_steps             = NumSteps(duration, dtm),
        !.step                  = 0,
        !.current_price         = s.entry_price,
        !.result                = None,
        !.effective_entry_price = s.entry_price,
        !.cumulative_profit     = 0,
        !.total_hedging_cost    = 0,
        !.rebalance_count       = 0,
        !.simulation_log        = << >> ]

\* the frame of run_simulation after lines 117-120
EnterRun(s, seed, duration, dtm, drift, volatility) ==
    [ s EXCEPT
        !.pc                  = "loop",
        !.runs                = @ + 1,
        !.step_counts         = Append(@, NumSteps(duration, dtm)),
        !.seed                = seed,
        !.simulation_duration = duration,
        !.dt_minutes          = dtm,
        !.drift               = drift,
        !.volatility          = volatility,
        !.num_steps           = NumSteps(duration, dtm),
        !.step                = 0,
        !.current_price       = s.entry_price,
        !.result              = None ]

\* run_simulation is called on a simulator that has not run yet
RunSimulationEnter(i) ==
    /\ sims[i].pc = "idle"
    /\ Running = {}
    /\ \E duration \in Durations, dtm \in DtMinutes,
          drift \in Drifts, volatility \in Volatilities :
          sims' = [ sims EXCEPT
                      ![i] = EnterRun(@, rng, duration, dtm, drift, volatility) ]
    /\ UNCHANGED <<rng, clock, csvfile, web, conf>>

\* one iteration of "for step in range(num_steps)"
RunSimulationStep(i) ==
    /\ sims[i].pc = "loop"
    /\ sims[i].step < sims[i].num_steps
    /\ \E now \in clock .. (IF clock < MaxClock THEN clock + 1 ELSE clock) :
          /\ clock' = now
          /\ sims' = [ sims EXCEPT ![i] = LoopBody(@, now, NormalDraw(rng)) ]
    /\ rng' = RngAdvance(rng)
    /\ UNCHANGED <<csvfile, web, conf>>

\* the loop is over: lines 148-164
RunSimulationReturn(i) ==
    /\ sims[i].pc = "loop"
    /\ sims[i].step >= sims[i].num_steps
    /\ sims' = [ sims EXCEPT ![i] = ReturnRun(@) ]
    /\ UNCHANGED <<rng, clock, csvfile, web, conf>>

\* export_log_to_csv is called between runs
ExportLog(i) ==
    /\ sims[i].pc # "loop"
    /\ csvfile' = ExportLogToCsv(sims[i], csvfile)
    /\ UNCHANGED <<sims, rng, clock, web, conf>>

Init ==
    /\ sims \in [ {1} -> FreshSimulators ]
    /\ rng \in RngSeeds
    /\ clock = 0
    /\ csvfile = NoFile
    /\ web = NoRequest
    /\ conf = NoConfig

Next ==
    \/ \E i \in DOMAIN sims : RunSimulationEnter(i)
    \/ \E i \in DOMAIN sims : RunSimulationStep(i)
    \/ \E i \in DOMAIN sims : RunSimulationReturn(i)
    \/ \E i \in DOMAIN sims : ExportLog(i)

Spec == Init /\ [][Next]_vars

\* ------------------------------------- one instance, run more than once

\* the durations of a further call of run_simulation
AgainDurations == 0 .. 2

\* run_simulation is called again on a simulator whose earlier call has
\* returned, with the step length, drift and volatility of that call
RunSimulationAgain(i) ==
    /\ sims[i].pc = "done"
    /\ sims[i].runs < MaxRuns
    /\ Running = {}
    /\ \E duration \in AgainDurations :
          sims' = [ sims EXCEPT
                      ![i] = EnterRun(@, rng, duration, sims[i].dt_minutes,
                                      sims[i].drift, sims[i].volatility) ]
    /\ UNCHANGED <<rng, clock, csvfile, web, conf>>

AgainSimulators ==
    { s \in FreshSimulators :
        /\ s.position_size = 1
        /\ s.collateral = 10
        /\ s.rebalance_threshold = -50
        /\ s.hedging_cost_pct = 10 }

InitAgain ==
    /\ sims \in [ {1} -> AgainSimulators ]
    /\ rng \in RngSeeds
    /\ clock = 0
    /\ csvfile = NoFile
    /\ web = NoRequest
    /\ conf = NoConfig

NextAgain ==
    \/ \E i \in DOMAIN sims : RunSimulationEnter(i)
    \/ \E i \in DOMAIN sims : RunSimulationAgain(i)
    \/ \E i \in DOMAIN sims : RunSimulationStep(i)
    \/ \E i \in DOMAIN sims : RunSimulationReturn(i)

SpecAgain == InitAgain /\ [][NextAgain]_vars

\* ------------------------------------------- two instances, one after the other

\* np.random.seed(x), called between two runs
Reseed(x) ==
    /\ Running = {}
    /\ \E i \in DOMAIN sims : sims[i].pc = "done"
    /\ \E i \in DOMAIN sims : sims[i].pc = "idle"
    /\ rng' = x
    /\ UNCHANGED <<sims, clock, csvfile, web, conf>>

\* run_simulation is called on instance i with the arguments instance j ran with
RunSimulationEnterLike(j, i) ==
    /\ sims[j].pc = "done"
    /\ sims[i].pc = "idle"
    /\ Running = {}
    /\ sims' = [ sims EXCEPT
                  ![i] = EnterRun(@, rng, sims[j].simulation_duration,
                                  sims[j].dt_minutes, sims[j].drift,
                                  sims[j].volatility) ]
    /\ UNCHANGED <<rng, clock, csvfile, web, conf>>

PairSimulators ==
    { PositionSimulator(1000, l, 1, 10, t, 10) :
        l \in {0, 610}, t \in RebalanceThresholds }

\* two simulators constructed with the same arguments
InitPair ==
    /\ \E s \in PairSimulators : sims = [ i \in {1, 2} |-> s ]
    /\ rng \in RngSeeds
    /\ clock = 0
    /\ csvfile = NoFile
    /\ web = NoRequest
    /\ conf = NoConfig

NextPair ==
    \/ RunSimulationEnter(1)
    \/ \E x \in RngSeeds : Reseed(x)
    \/ RunSimulationEnterLike(1, 2)
    \/ \E i \in DOMAIN sims : RunSimulationStep(i)
    \/ \E i \in DOMAIN sims : RunSimulationReturn(i)

SpecPair == InitPair /\ [][NextPair]_vars

\* ------------------------------------------------- a request to a handler

\* lines 37-51 and 124-144: the posted fields replace the defaults
HandlerParse ==
    /\ web.pc = "start"
    /\ LET p == IF web.method = "POST"
                THEN ParseFrom(web.params, web.form, 1)
                ELSE [params |-> web.params, error |-> FALSE]
       IN  web' = [ web EXCEPT !.pc = "parsed",
                               !.params = p.params,
                               !.parse_error = p.error ]
    /\ UNCHANGED <<sims, rng, clock, csvfile, conf>>

\* lines 54-62 and 146-159: the simulator is constructed
HandlerConstruct ==
    /\ web.pc = "parsed"
    /\ LET kwargs == ConstructorKwargs(web.params)
           called == [ web EXCEPT
                         !.tweaked = IF web.handler = "compare"
                                     THEN Some(TweakedParams(web.params)) ELSE @,
                         !.ctor_calls = Append(@, kwargs) ]
       IN  IF CallRaisesTypeError(kwargs)
           THEN /\ web' = [ called EXCEPT !.pc = "done", !.outcome = "TypeError" ]
                /\ sims' = sims
           ELSE /\ web' = [ called EXCEPT !.pc = "constructed" ]
                /\ sims' = << PositionSimulator(
                                 kwargs.entry_price, kwargs.liquidation_price,
                                 kwargs.position_size, kwargs.collateral,
                                 kwargs.rebalance_threshold, kwargs.hedging_cost_pct) >>
    /\ UNCHANGED <<rng, clock, csvfile, conf>>

\* a request arrives; no simulator exists yet
InitWeb ==
    /\ sims = << >>
    /\ rng = 0
    /\ clock = 0
    /\ csvfile = NoFile
    /\ web \in Requests
    /\ conf = NoConfig

NextWeb ==
    \/ HandlerParse
    \/ HandlerConstruct

SpecWeb == InitWeb /\ [][NextWeb]_vars

\* ------------------------------------- an update of the configuration

\* update_config(new_config, json_path, db_conn), lines 106-126
UpdateConfig ==
    /\ conf.pc = "start"
    /\ LET current_config == load_config(conf.file, conf.db, conf.has_conn)
           updated_config == deep_merge_dicts(current_config, conf.new_config)
       IN  conf' = [ conf EXCEPT !.pc = "updated",
                                 !.file = save_config(updated_config),
                                 !.updated = Some(updated_config) ]
    /\ UNCHANGED <<sims, rng, clock, csvfile, web>>

\* load_config(json_path, db_conn) after the update, with the same file and
\* database
LoadConfig ==
    /\ conf.pc = "updated"
    /\ conf' = [ conf EXCEPT
                   !.pc = "loaded",
                   !.loaded = Some(load_config(conf.file, conf.db, conf.has_conn)) ]
    /\ UNCHANGED <<sims, rng, clock, csvfile, web>>

InitConfig ==
    /\ sims = << >>
    /\ rng = 0
    /\ clock = 0
    /\ csvfile = NoFile
    /\ web = NoRequest
    /\ conf \in ConfigCalls

NextConfig ==
    \/ UpdateConfig
    \/ LoadConfig

SpecConfig == InitConfig /\ [][NextConfig]_vars

\* ------------------------------------------------------------ properties

Last(seq) == seq[Len(seq)]

RebalanceRows(log) == { k \in DOMAIN log : log[k].action = "REBALANCE" }

RECURSIVE SumNetProfit(_)
SumNetProfit(log) ==
    IF log = << >> THEN 0
    ELSE SumNetProfit(SubSeq(log, 1, Len(log) - 1))
             + (IF Last(log).action = "REBALANCE" THEN Last(log).net_profit ELSE 0)

\* the reference price step k of s was measured against: the price of the
\* latest REBALANCE row before k, the entry price if there is none
ReferenceBefore(s, k) ==
    LET earlier == { j \in RebalanceRows(s.simulation_log) : j < k }
    IN  IF earlier = {} THEN s.entry_price
        ELSE s.simulation_log[CHOOSE j \in earlier : \A h \in earlier : h <= j].price

\* C1: once run_simulation has returned on a fresh simulator, for a duration
\* >= 0 and a step length > 0, the log holds exactly num_steps records and
\* num_steps is floor(duration / step length).
C1_LogLengthIsNumSteps ==
    \A i \in DOMAIN sims :
        LET s == sims[i]
        IN  (s.pc = "done" /\ s.simulation_duration >= 0 /\ s.dt_minutes > 0)
            => /\ Len(s.simulation_log) = s.num_steps
               /\ s.num_steps * s.dt_minutes <= s.simulation_duration
               /\ s.simulation_duration < (s.num_steps + 1) * s.dt_minutes

\* a returned run of at least one step whose duration is no multiple of the step
C1_Witness ==
    \E i \in DOMAIN sims :
        /\ sims[i].pc = "done"
        /\ sims[i].simulation_duration % sims[i].dt_minutes # 0
        /\ Len(sims[i].simulation_log) >= 1

\* C2: in every state of a run, rebalance_count is the number of log records
\* whose action is REBALANCE.
C2_RebalanceCountMatchesLog ==
    \A i \in DOMAIN sims :
        sims[i].rebalance_count = Cardinality(RebalanceRows(sims[i].simulation_log))

\* a run in progress that has hedged twice and not hedged once
C2_Witness ==
    \E i \in DOMAIN sims :
        /\ sims[i].pc = "loop"
        /\ sims[i].rebalance_count = 2
        /\ \E k \in DOMAIN sims[i].simulation_log :
              sims[i].simulation_log[k].action = "NONE"

\* C3: in every state of a run, cumulative_profit is the sum of the net_profit
\* fields of the REBALANCE records, each net_profit being trade profit minus
\* hedging cost; NONE records add nothing to it.
C3_CumulativeProfitIsSumOfNetProfit ==
    \A i \in DOMAIN sims :
        LET log == sims[i].simulation_log
        IN  /\ sims[i].cumulative_profit = SumNetProfit(log)
            /\ \A k \in RebalanceRows(log) :
                  log[k].net_profit = log[k].trade_profit - log[k].hedging_cost

\* a hedge with a cost was followed by a NONE step that left a paper profit
C3_Witness ==
    \E i \in DOMAIN sims :
        LET log == sims[i].simulation_log
        IN  /\ Len(log) >= 2
            /\ log[1].action = "REBALANCE"
            /\ log[1].hedging_cost > 0
            /\ Last(log).action = "NONE"
            /\ Last(log).unrealized_pnl # 0
            /\ sims[i].cumulative_profit # 0

\* C4: effective_entry_price changes only in a REBALANCE step, and then to that
\* step's price as recorded in its log record; a NONE step, the entry and
\* return of run_simulation and the log export leave it unchanged.
C4_ReferenceChangesOnlyOnRebalance ==
    [][ \A i \in DOMAIN sims :
          LET s == sims[i]
              t == sims'[i]
          IN  IF Len(t.simulation_log) = Len(s.simulation_log) + 1
              THEN LET r == Last(t.simulation_log)
                   IN  /\ r.action = "NONE"
                          => t.effective_entry_price = s.effective_entry_price
                       /\ r.action = "REBALANCE"
                          => t.effective_entry_price = r.price
              ELSE t.effective_entry_price = s.effective_entry_price ]_vars

\* the reference price stands at the price of an earlier hedge, away from the
\* entry price, after a later NONE step at another price
C4_Witness ==
    \E i \in DOMAIN sims :
        LET log == sims[i].simulation_log
        IN  /\ Len(log) >= 2
            /\ log[Len(log) - 1].action = "REBALANCE"
            /\ Last(log).action = "NONE"
            /\ Last(log).price # log[Len(log) - 1].price
            /\ sims[i].effective_entry_price = log[Len(log) - 1].price
            /\ sims[i].effective_entry_price # sims[i].entry_price

\* C5: a record's action is REBALANCE exactly when its travel percent is at
\* most rebalance_threshold, equality included; with a threshold of 0 the
\* records with travel <= 0 are REBALANCE and those with travel > 0 are NONE.
C5_RebalanceIffTravelAtMostThreshold ==
    \A i \in DOMAIN sims :
        \A k \in DOMAIN sims[i].simulation_log :
            LET r == sims[i].simulation_log[k]
            IN  /\ r.action \in {"NONE", "REBALANCE"}
                /\ r.action = "REBALANCE"
                   <=> r.travel_percent <= sims[i].rebalance_threshold

\* a step whose travel equals the threshold hedged, another step did not
C5_Witness ==
    \E i \in DOMAIN sims :
        LET log == sims[i].simulation_log
        IN  /\ \E k \in DOMAIN log :
                  /\ log[k].travel_percent = sims[i].rebalance_threshold
                  /\ log[k].action = "REBALANCE"
            /\ \E k \in DOMAIN log :
                  /\ log[k].travel_percent > sims[i].rebalance_threshold
                  /\ log[k].action = "NONE"

ProbePrices == {0, 1, 610, 1000, 1650}

\* C6: whenever effective_entry_price equals liquidation_price,
\* _calculate_travel_percent gives 0 for every current price, and every step
\* measured against such a reference price is logged with travel percent 0.
C6_ZeroDenominatorGivesZeroTravel ==
    \A i \in DOMAIN sims :
        LET s == sims[i]
        IN  /\ s.effective_entry_price = s.liquidation_price
               => \A p \in ProbePrices : CalculateTravelPercent(s, p) = 0
            /\ \A k \in DOMAIN s.simulation_log :
                  ReferenceBefore(s, k) = s.liquidation_price
                  => s.simulation_log[k].travel_percent = 0

\* after a hedge executed at the liquidation price, a later step at another
\* price was logged
C6_Witness ==
    \E i \in DOMAIN sims :
        LET s == sims[i]
        IN  /\ s.entry_price # s.liquidation_price
            /\ s.effective_entry_price = s.liquidation_price
            /\ \E k \in DOMAIN s.simulation_log :
                  /\ k > 1
                  /\ ReferenceBefore(s, k) = s.liquidation_price
                  /\ s.simulation_log[k].price # s.liquidation_price

BothDone == \A i \in DOMAIN sims : sims[i].pc = "done"

\* the union of the key sets of the records of a log
ColumnSet(log) == UNION { DOMAIN log[k] : k \in DOMAIN log }

\* C7: two fresh instances run with identical parameters from the same random
\* seed produce identical logs, timestamps included.
C7_SameSeedSameLog ==
    (BothDone /\ sims[1].seed = sims[2].seed)
    => sims[1].simulation_log = sims[2].simulation_log

\* C8 as stated: two fresh instances run with identical parameters produce logs
\* of the same length and with the same column set, whatever hedges happened.
C8_SameLengthAndColumnSet ==
    BothDone
    => /\ Len(sims[1].simulation_log) = Len(sims[2].simulation_log)
       /\ ColumnSet(sims[1].simulation_log) = ColumnSet(sims[2].simulation_log)

\* C8 amended: the logs have the same length, every record holds the seven
\* common keys, and the three hedge-detail keys exactly on REBALANCE records.
C8_SameLengthAndCommonColumns ==
    BothDone
    => /\ Len(sims[1].simulation_log) = Len(sims[2].simulation_log)
       /\ \A i \in DOMAIN sims :
             \A k \in DOMAIN sims[i].simulation_log :
                 LET r == sims[i].simulation_log[k]
                 IN  DOMAIN r = Range(CommonKeys)
                        \cup (IF r.action = "REBALANCE"
                              THEN Range(HedgeKeys) ELSE {})

\* both runs returned from different seeds; one hedged and the other did not
C8_Witness ==
    /\ BothDone
    /\ sims[1].seed # sims[2].seed
    /\ Len(sims[1].simulation_log) >= 2
    /\ RebalanceRows(sims[1].simulation_log) # {}
    /\ RebalanceRows(sims[2].simulation_log) = {}

\* what C9 states of a run with volatility 0 and drift 0
ConstantPath(s) ==
    /\ s.rebalance_count = 0
    /\ s.cumulative_profit = 0
    /\ \A k \in DOMAIN s.simulation_log :
          LET r == s.simulation_log[k]
          IN  /\ r.price = s.entry_price
              /\ r.travel_percent = 0
              /\ r.action = "NONE"
              /\ r.unrealized_pnl = 0

ZeroVolatilityRun(s) ==
    s.pc \in {"loop", "done"} /\ s.volatility = 0 /\ s.drift = 0

\* C9 as stated: with volatility 0 and drift 0, whatever the threshold and the
\* cost rate, every price is the entry price, every travel is 0, no step
\* hedges, cumulative_profit stays 0 and every unrealized_pnl is 0.
C9_ZeroVolatilityNeverRebalances ==
    \A i \in DOMAIN sims : ZeroVolatilityRun(sims[i]) => ConstantPath(sims[i])

\* C9 amended: the same, for a rebalance threshold below 0.
C9_ZeroVolatilityNegativeThreshold ==
    \A i \in DOMAIN sims :
        (ZeroVolatilityRun(sims[i]) /\ sims[i].rebalance_threshold < 0)
        => ConstantPath(sims[i])

\* a returned run of two steps or more with volatility 0, drift 0, a cost
\* rate and a negative threshold
C9_Witness ==
    \E i \in DOMAIN sims :
        /\ sims[i].pc = "done"
        /\ sims[i].volatility = 0
        /\ sims[i].drift = 0
        /\ sims[i].rebalance_threshold < 0
        /\ sims[i].hedging_cost_pct > 0
        /\ Len(sims[i].simulation_log) >= 2

\* the price of the last simulated step, the entry price when there is none
FinalPrice(s) ==
    IF s.simulation_log = << >> THEN s.entry_price ELSE Last(s.simulation_log).price

\* C10: with a nonzero collateral, the leverage of the result bundle is
\* (position_size * final price) / collateral, the final price being the price
\* of the last step, or the entry price after zero steps.
C10_LeverageFromFinalPrice ==
    \A i \in DOMAIN sims :
        LET s == sims[i]
        IN  (s.pc = "done" /\ s.collateral # 0)
            => /\ s.result # None
               /\ s.result[1].leverage =
                      Some(FDiv(s.position_size * FinalPrice(s), s.collateral))
               /\ s.result[1].final_price = FinalPrice(s)

\* a returned run whose final price is neither the entry price nor the
\* effective entry price
C10_Witness ==
    \E i \in DOMAIN sims :
        LET s == sims[i]
        IN  /\ s.pc = "done"
            /\ s.collateral # 0
            /\ s.simulation_log # << >>
            /\ FinalPrice(s) # s.entry_price
            /\ FinalPrice(s) # s.effective_entry_price
            /\ s.rebalance_count >= 1

C12_ZeroCollateralLeverageAbsent ==
    (web.handler = "dashboard" /\ web.pc = "done" /\ web.params.collateral = 0)
    => (web.outcome = "ok" /\ web.leverage = None)

\* C13: constructing PositionSimulator with the parameters of the intake
\* layer, position_side included, and running it completes for both handlers.
C13_HandlersComplete ==
    web.pc = "done" => web.outcome = "ok"

\* C14: when parsing a posted field fails, the constructor is not called.
C14_InvalidParameterRejected ==
    web.parse_error => web.ctor_calls = << >>

\* C15: export_log_to_csv after a returned run with a non-empty log succeeds
\* and writes one row per step, whichever step is the first to rebalance.
C15_ExportWritesEveryRow ==
    \A i \in DOMAIN sims :
        (sims[i].pc = "done" /\ csvfile # NoFile)
        => /\ csvfile.error = "none"
           /\ Len(csvfile.rows) = Len(sims[i].simulation_log)

\* row k of s moved from its reference toward the liquidation price
Adverse(s, k) ==
    LET ref   == ReferenceBefore(s, k)
        price == s.simulation_log[k].price
    IN  \/ s.liquidation_price < ref /\ price < ref
        \/ s.liquidation_price > ref /\ price > ref

\* row k of s moved from its reference away from the liquidation price
Favourable(s, k) ==
    LET ref   == ReferenceBefore(s, k)
        price == s.simulation_log[k].price
    IN  \/ s.liquidation_price < ref /\ price > ref
        \/ s.liquidation_price > ref /\ price < ref

\* the move of row k is at least one percent of the distance from the
\* reference to the liquidation price, the resolution of travel_percent here
WholePercent(s, k) ==
    LET ref == ReferenceBefore(s, k)
    IN  Abs(s.simulation_log[k].price - ref) * 100 >= Abs(ref - s.liquidation_price)

\* C16: in every log row the travel percent of a move toward the liquidation
\* price is negative and that of a move away from it is positive, whether the
\* liquidation price lies below the reference (long) or above it (short); a
\* move of less than one percent of the distance reads 0 at this resolution,
\* never the opposite sign.
C16_AdverseIsNegativeOnBothSides ==
    \A i \in DOMAIN sims : \A k \in DOMAIN sims[i].simulation_log :
        LET travel == sims[i].simulation_log[k].travel_percent
        IN  /\ Adverse(sims[i], k) =>
                /\ travel <= 0
                /\ WholePercent(sims[i], k) => travel < 0
            /\ Favourable(sims[i], k) =>
                /\ travel >= 0
                /\ WholePercent(sims[i], k) => travel > 0

\* a finished run with the liquidation price above the reference whose log
\* has an adverse row of negative travel and a favourable row of positive
\* travel, and a row of each kind with the liquidation price below
C16_Witness ==
    \E i \in DOMAIN sims :
        LET s == sims[i]
            short(k) == s.liquidation_price > ReferenceBefore(s, k)
        IN  /\ s.pc = "done"
            /\ \E k \in DOMAIN s.simulation_log :
                  /\ short(k) /\ Adverse(s, k)
                  /\ s.simulation_log[k].travel_percent < 0
            /\ \E k \in DOMAIN s.simulation_log :
                  /\ short(k) /\ Favourable(s, k)
                  /\ s.simulation_log[k].travel_percent > 0
            /\ \E k \in DOMAIN s.simulation_log :
                  /\ ~short(k) /\ Adverse(s, k)
                  /\ s.simulation_log[k].travel_percent < 0

\* C17: every price recorded in a step log is strictly positive.
C17_LoggedPricesPositive ==
    \A i \in DOMAIN sims : \A k \in DOMAIN sims[i].simulation_log :
        sims[i].simulation_log[k].price > 0

\* the travel of a price measured against a given reference price
TravelAgainst(reference, liquidation_price, price) ==
    IF reference = liquidation_price THEN 0
    ELSE FDiv((price - reference) * 100, reference - liquidation_price)

\* C18: whenever a step of a run completes, the travel percent it logs is
\* measured against the reference price as it stood before the step, which is
\* the price of the latest earlier REBALANCE row or the entry price; the step
\* executes at most one hedge, exactly one when its row says REBALANCE, and
\* the hedge leaves the row's price as the reference for the next step.
C18_TravelAgainstReferenceBeforeStep ==
    [][ \A i \in DOMAIN sims :
          (i \in DOMAIN sims' /\ sims'[i].step = sims[i].step + 1) =>
              LET n   == Len(sims'[i].simulation_log)
                  row == sims'[i].simulation_log[n]
                  before == sims[i].effective_entry_price
              IN  /\ before = ReferenceBefore(sims'[i], n)
                  /\ row.travel_percent =
                        TravelAgainst(before, sims[i].liquidation_price, row.price)
                  /\ sims'[i].rebalance_count - sims[i].rebalance_count
                        = (IF row.action = "REBALANCE" THEN 1 ELSE 0)
                  /\ sims'[i].effective_entry_price
                        = (IF row.action = "REBALANCE" THEN row.price ELSE before)
      ]_vars

\* a hedge in row k away from the entry price, itself measured against the
\* entry price, and a row k+1 whose nonzero travel is measured against the
\* price of row k and differs from the travel against the entry price
C18_Witness ==
    \E i \in DOMAIN sims :
        LET s == sims[i] log == s.simulation_log
        IN  \E k \in DOMAIN log :
                /\ k + 1 \in DOMAIN log
                /\ log[k].action = "REBALANCE"
                /\ log[k].price # s.entry_price
                /\ log[k].travel_percent # 0
                /\ log[k + 1].travel_percent # 0
                /\ log[k + 1].travel_percent =
                     TravelAgainst(log[k].price, s.liquidation_price, log[k + 1].price)
                /\ log[k + 1].travel_percent #
                     TravelAgainst(s.entry_price, s.liquidation_price, log[k + 1].price)

\* the reference price after row k of s: the price of the latest REBALANCE
\* row up to and including k, the entry price if there is none
ReferenceAfter(s, k) == ReferenceBefore(s, k + 1)

\* every row's unrealized_pnl is taken against the reference after that row
RowsUnrealizedAgainstReferenceAfter(s) ==
    \A k \in DOMAIN s.simulation_log :
        LET row == s.simulation_log[k]
        IN  /\ row.unrealized_pnl =
                  (row.price - ReferenceAfter(s, k)) * s.position_size
            /\ row.action = "REBALANCE" => row.unrealized_pnl = 0

\* C19 as stated: the unrealized_pnl of every log row is (row price -
\* reference price after that row) * position_size, so 0 on every REBALANCE
\* row; and once a call of run_simulation has returned, final_unrealized_pnl
\* in its result bundle is the last row's unrealized_pnl, and 0 when the call
\* made zero steps.
C19_FinalUnrealizedZeroOnZeroSteps ==
    \A i \in DOMAIN sims :
        LET s == sims[i]
        IN  /\ RowsUnrealizedAgainstReferenceAfter(s)
            /\ s.pc = "done" =>
                  s.result[1].final_unrealized_pnl =
                     (IF s.num_steps <= 0 THEN 0
                      ELSE Last(s.simulation_log).unrealized_pnl)

\* C19 amended: as above, but final_unrealized_pnl is 0 after a call of zero
\* steps only when that call is the first on its instance.
C19_UnrealizedAgainstReferenceAfterStep ==
    \A i \in DOMAIN sims :
        LET s == sims[i]
        IN  /\ RowsUnrealizedAgainstReferenceAfter(s)
            /\ (s.pc = "done" /\ s.num_steps > 0) =>
                  s.result[1].final_unrealized_pnl =
                     Last(s.simulation_log).unrealized_pnl
            /\ (s.pc = "done" /\ s.num_steps <= 0 /\ s.runs = 1) =>
                  s.result[1].final_unrealized_pnl = 0

\* a returned run with a hedge away from the entry price whose last row, a
\* NONE row after the hedge, has a nonzero unrealized_pnl that differs from
\* the one against the entry price
C19_Witness ==
    \E i \in DOMAIN sims :
        LET s == sims[i] log == s.simulation_log
        IN  /\ s.pc = "done"
            /\ s.num_steps >= 2
            /\ Last(log).action = "NONE"
            /\ Last(log).unrealized_pnl # 0
            /\ Last(log).unrealized_pnl #
                  (Last(log).price - s.entry_price) * s.position_size
            /\ s.result[1].final_unrealized_pnl = Last(log).unrealized_pnl
            /\ \E k \in RebalanceRows(log) : log[k].price # s.entry_price

\* C20: during a run on a fresh simulator the log only grows at its end: a
\* transition either leaves it alone or appends one row to it, a completed
\* step appends exactly one row, the rows already there stay as they were,
\* and the row at position k carries step index k.
C20_LogAppendOnly ==
    [][ \A i \in DOMAIN sims :
          LET old == sims[i].simulation_log
              new == sims'[i].simulation_log
          IN  /\ \/ new = old
                 \/ /\ Len(new) = Len(old) + 1
                    /\ SubSeq(new, 1, Len(old)) = old
              /\ sims'[i].step = sims[i].step + 1 => Len(new) = Len(old) + 1
              /\ Len(new) = Len(old) + 1 => sims'[i].step = sims[i].step + 1
              /\ \A k \in DOMAIN new : new[k].step = k
      ]_vars

\* a run three steps in, its rows numbered 1, 2, 3 with distinct prices
C20_Witness ==
    \E i \in DOMAIN sims :
        LET log == sims[i].simulation_log
        IN  /\ sims[i].pc = "loop"
            /\ sims[i].step = 3
            /\ Len(log) = 3
            /\ \A k \in 1 .. 3 : log[k].step = k
            /\ log[1].price # log[2].price
            /\ log[2].price # log[3].price

\* C21: the cumulative_profit stored in row k of a log is the sum of
\* net_profit over the REBALANCE rows 1 .. k; on a NONE row it is the value of
\* the row before, and 0 when the row is the first of the log.
C21_RecordCarriesRunningProfit ==
    \A i \in DOMAIN sims :
        LET log == sims[i].simulation_log
        IN  \A k \in DOMAIN log :
                /\ log[k].cumulative_profit = SumNetProfit(SubSeq(log, 1, k))
                /\ log[k].action = "NONE" =>
                      log[k].cumulative_profit =
                         (IF k = 1 THEN 0 ELSE log[k - 1].cumulative_profit)

\* a log with two hedges of nonzero net profit, the second from a later call
\* on the same instance, and a NONE row after the first that carries its total
C21_Witness ==
    \E i \in DOMAIN sims :
        LET log == sims[i].simulation_log
        IN  /\ sims[i].runs = 2
            /\ \E j, k, m \in DOMAIN log :
                  /\ j < k /\ k < m
                  /\ log[j].action = "REBALANCE" /\ log[j].net_profit # 0
                  /\ log[k].action = "NONE"
                  /\ log[k].cumulative_profit = log[j].cumulative_profit
                  /\ log[m].action = "REBALANCE" /\ log[m].net_profit # 0
                  /\ log[m].step <= log[k].step
                  /\ log[m].cumulative_profit =
                        log[k].cumulative_profit + log[m].net_profit

\* the number of passes of "for step in range(num_steps)"
Passes(num_steps) == IF num_steps < 0 THEN 0 ELSE num_steps

RECURSIVE SumPasses(_)
SumPasses(counts) ==
    IF counts = << >> THEN 0
    ELSE SumPasses(SubSeq(counts, 1, Len(counts) - 1)) + Passes(Last(counts))

\* the step indices of a log written by calls of the given step counts:
\* 1 .. n for each call, one call after the other
RECURSIVE StepIndices(_)
StepIndices(counts) ==
    IF counts = << >> THEN << >>
    ELSE StepIndices(SubSeq(counts, 1, Len(counts) - 1))
             \o [ k \in 1 .. Passes(Last(counts)) |-> k ]

\* what the log and the totals of s are after the calls made on it so far
LogOverCalls(s) ==
    LET log == s.simulation_log
    IN  /\ s.pc = "done" =>
              /\ Len(log) = SumPasses(s.step_counts)
              /\ [ k \in DOMAIN log |-> log[k].step ] = StepIndices(s.step_counts)
        /\ s.rebalance_count = Cardinality(RebalanceRows(log))
        /\ s.cumulative_profit = SumNetProfit(log)

\* C22: a call of run_simulation on an instance that has run before starts
\* its price path at entry_price and its step counter at 0 and leaves the log,
\* effective_entry_price, cumulative_profit, total_hedging_cost and
\* rebalance_count as the earlier calls left them; once k calls have
\* returned, the log holds as many rows as the k calls made steps, numbered
\* from 1 within each call; and rebalance_count and cumulative_profit are at
\* all times the number of REBALANCE rows and the sum of net_profit of the
\* whole log.
C22_RunDoesNotReset ==
    [][ \A i \in DOMAIN sims :
          /\ (sims[i].pc = "done" /\ sims'[i].pc = "loop") =>
                /\ sims'[i].current_price = sims[i].entry_price
                /\ sims'[i].step = 0
                /\ sims'[i].simulation_log = sims[i].simulation_log
                /\ sims'[i].effective_entry_price = sims[i].effective_entry_price
                /\ sims'[i].cumulative_profit = sims[i].cumulative_profit
                /\ sims'[i].total_hedging_cost = sims[i].total_hedging_cost
                /\ sims'[i].rebalance_count = sims[i].rebalance_count
          /\ LogOverCalls(sims'[i])
      ]_vars

\* two calls have returned, each of at least one step; the first hedged away
\* from the entry price and the second hedged again, so the log is longer
\* than the last call's num_steps and its step indices start over
C22_Witness ==
    \E i \in DOMAIN sims :
        LET s == sims[i] log == s.simulation_log
            first == s.step_counts[1]
        IN  /\ s.pc = "done"
            /\ s.runs = 2
            /\ first >= 1 /\ s.num_steps >= 1
            /\ Len(log) = first + s.num_steps
            /\ log[first + 1].step = 1
            /\ \E k \in 1 .. first :
                  log[k].action = "REBALANCE" /\ log[k].price # s.entry_price
            /\ \E k \in first + 1 .. Len(log) : log[k].action = "REBALANCE"
            /\ s.rebalance_count >= 2
            /\ s.effective_entry_price # s.entry_price


\* C23: when update_config has returned a dictionary and load_config is then
\* called with the same file and database, load_config returns that
\* dictionary.
C23_LoadReturnsWhatUpdateReturned ==
    conf.pc = "loaded" => conf.loaded = conf.updated

====
